---- MODULE Spec2Model ----
(***************************************************************************)
(* SimplyBuilder: the structure-to-DOM compiler (createFromStruct), the    *)
(* element builder (BuildElement), the key -> element store (DomStore) and *)
(* the element -> listeners store (EventStore), as one state machine.      *)
(*                                                                         *)
(* The DOM is a sequence of nodes, a node's identity is its index.  Node 1 *)
(* is document.body.  A JavaScript exception in flight is the flag threw   *)
(* of the state an operator returns: it travels up to the nearest catch.   *)
(***************************************************************************)
EXTENDS Integers, Sequences, FiniteSets, TLC

\* ------------------------------------------------------------------ bounds
MaxNodes == 5       \* DOM nodes that may exist, document.body included
MaxSteps == 3       \* operations in one behaviour of Spec
MaxRecompiles == 1  \* further createFromStruct calls on the same description object
MaxTreeNodes == 9   \* DOM nodes that may exist in SpecTree, document.body included

\* --------------------------------------------------------------- constants
Undefined == 0      \* JavaScript undefined, as a node reference
Body == 1           \* document.body
NoValue == "<undefined>"   \* an absent string-valued property

SVGNS == "http://www.w3.org/2000/svg"
HTMLNS == "http://www.w3.org/1999/xhtml"

VARIABLES
    nodes,             \* the DOM: Seq of node records
    ElementRefStore,   \* DomStore: key -> node, a function on the stored keys
    ActionRefStore,    \* EventStore: node -> Seq of [type, handler], on the stored nodes
    held,              \* the description object the caller holds: <<>> or <<struct>>
    last,              \* the operation just run, its arguments and what it observed
    steps              \* operations made so far

vars == <<nodes, ElementRefStore, ActionRefStore, held, last, steps>>

\* -------------------------------------------------------- JavaScript values
\* Truthiness of a string-valued property: undefined and "" are falsy.
Truthy(s) == s # NoValue /\ s # ""

Reverse(s) == [i \in 1..Len(s) |-> s[Len(s) + 1 - i]]

\* ------------------------------------------------------------------- DOM
\* kind: the interface the node implements (instanceof).
NewNode(tag, ns, kind, origin) ==
    [tag |-> tag, ns |-> ns, kind |-> kind,
     parent |-> Undefined,      \* parentNode
     kids |-> <<>>,             \* childNodes that are elements, in order
     host |-> Undefined,        \* ShadowRoot.host
     shadowRoot |-> Undefined,  \* the shadow root attached to this element
     shadowMode |-> NoValue,
     dataset |-> <<>>,          \* Seq of [name, value], one entry per name
     attr |-> {},               \* names set through setAttribute
     attrNS |-> {},             \* names set through setAttributeNS
     text |-> NoValue,          \* textContent, when assigned
     listeners |-> {},          \* the event listener list: {<<type, handler>>}
     createdBy |-> "",          \* the document method that made the node
     origin |-> origin]         \* history: the call and description node it was built for

\* element.dataset[name]
DatasetGet(n, name) ==
    IF \E i \in 1..Len(n.dataset) : n.dataset[i].name = name
    THEN (CHOOSE e \in {n.dataset[i] : i \in 1..Len(n.dataset)} : e.name = name).value
    ELSE NoValue

\* element.dataset[name] = value
DatasetSet(n, name, value) ==
    IF \E i \in 1..Len(n.dataset) : n.dataset[i].name = name
    THEN [n EXCEPT !.dataset = [i \in 1..Len(n.dataset) |->
              IF n.dataset[i].name = name THEN [name |-> name, value |-> value]
              ELSE n.dataset[i]]]
    ELSE [n EXCEPT !.dataset = Append(@, [name |-> name, value |-> value])]

RemoveFromSeq(s, x) == SelectSeq(s, LAMBDA y : y # x)

\* parent.appendChild(child), child a node that has no parent yet
AppendChild(ns, parent, child) ==
    [ns EXCEPT ![parent].kids = Append(@, child), ![child].parent = parent]

\* element.remove(): a no-op on a node without parent
RemoveNode(ns, e) ==
    IF ns[e].parent = Undefined THEN ns
    ELSE [ns EXCEPT ![ns[e].parent].kids = RemoveFromSeq(@, e),
                    ![e].parent = Undefined]

\* ---------------------------------------------------------------- DomStore
\* An operator takes and returns a state st = [nodes, ref, act, threw, ...]: the
\* DOM, ElementRefStore, ActionRefStore, and whether an exception is in flight.

Throw(st) == [st EXCEPT !.threw = TRUE]
\* catch (err) { console.log(err) }
Catch(st) == [st EXCEPT !.threw = FALSE]

\* Mutant: an existing entry is kept (a store that refuses to overwrite)
addElement_keepsExisting(st, key, value) ==
    IF Truthy(key) /\ value # Undefined /\ key \notin DOMAIN st.ref
    THEN [st EXCEPT !.ref = [k \in DOMAIN st.ref \cup {key} |->
                                 IF k = key THEN value ELSE st.ref[k]]]
    ELSE st

\* ElementRefStore[key] = value, guarded by key && value
addElement(st, key, value) ==
    IF Truthy(key) /\ value # Undefined
    THEN [st EXCEPT !.ref = [k \in DOMAIN st.ref \cup {key} |->
                                 IF k = key THEN value ELSE st.ref[k]]]
    ELSE st

getElement(st, key) ==
    IF Truthy(key) /\ key \in DOMAIN st.ref THEN st.ref[key] ELSE Undefined

\* delete ElementRefStore[key]
DeleteRef(st, key) ==
    [st EXCEPT !.ref = [k \in DOMAIN st.ref \ {key} |-> st.ref[k]]]

\* -------------------------------------------------------------- EventStore
registerEventStore(st, element, type, handler, nodeId) ==
    IF element # Undefined /\ Truthy(type) /\ Truthy(handler)
    THEN LET old == IF element \in DOMAIN st.act THEN st.act[element] ELSE <<>>
             schema == [type |-> type, handler |-> handler,
                        nodeId |-> IF Truthy(nodeId) THEN nodeId ELSE NoValue]
             entry == Append(old, schema)
         IN [st EXCEPT
               !.act = [e \in DOMAIN st.act \cup {element} |->
                           IF e = element THEN entry ELSE st.act[e]],
               \* addEventListener: an equal (type, handler, capture) is not added twice
               !.nodes[element].listeners = @ \cup {<<type, handler>>}]
    ELSE st

\* removeElement and removeEventStore call each other: mode 1 tears the element
\* down, and the teardown calls removeElement again with mode 2.
RECURSIVE removeElement(_, _, _)

\* Mutant: an element that is still registered is only unregistered, one that
\* is not is only removed (an else between the two statements)
removeFromDomStore_oneStepPerCall(st, element) ==
    IF element = Undefined THEN st
    ELSE IF st.nodes[element].kind = "ShadowRoot" THEN st
    ELSE LET state == DatasetGet(st.nodes[element], "state")
         IN IF Truthy(state) /\ state \in DOMAIN st.ref
            THEN removeElement(st, state, 2)
            ELSE [st EXCEPT !.nodes = RemoveNode(@, element)]

\* The try block of removeFromDomStore
TryRemoveFromDomStore(st, element) ==
    IF element = Undefined THEN Throw(st)           \* destructuring undefined
    ELSE IF st.nodes[element].kind = "ShadowRoot"
    THEN Throw(st)                                  \* a ShadowRoot has no dataset
    ELSE LET state == DatasetGet(st.nodes[element], "state")
             s1 == IF Truthy(state) THEN removeElement(st, state, 2) ELSE st
         IN [s1 EXCEPT !.nodes = RemoveNode(@, element)]

removeFromDomStore(st, element) == Catch(TryRemoveFromDomStore(st, element))

\* Mutant: the loop stops before index 0 (i > 0), so the first registration
\* stays attached and the entry is never deleted
TryRemoveEventStore_stopsBeforeFirst(st, element) ==
    LET s1 == IF element \in DOMAIN st.act
              THEN LET eventList == st.act[element]
                   IN [st EXCEPT
                         !.nodes[element].listeners =
                             @ \ {<<eventList[i].type, eventList[i].handler>> :
                                     i \in 2..Len(eventList)}]
              ELSE st
    IN removeFromDomStore(s1, element)

\* Mutant: the entry is emptied, not deleted (ActionRefStore.set(element, []))
TryRemoveEventStore_emptiesEntry(st, element) ==
    LET s1 == IF element \in DOMAIN st.act
              THEN LET eventList == st.act[element]
                   IN [st EXCEPT
                         !.nodes[element].listeners =
                             @ \ {<<eventList[i].type, eventList[i].handler>> :
                                     i \in 1..Len(eventList)},
                         !.act[element] = <<>>]
              ELSE st
    IN removeFromDomStore(s1, element)

\* The try block of removeEventStore
TryRemoveEventStore(st, element) ==
    LET s1 == IF element \in DOMAIN st.act
              THEN LET eventList == st.act[element]
                   IN IF Len(eventList) >= 1
                      THEN [st EXCEPT
                              !.nodes[element].listeners =
                                  @ \ {<<eventList[i].type, eventList[i].handler>> :
                                          i \in 1..Len(eventList)},
                              !.act = [e \in DOMAIN st.act \ {element} |-> st.act[e]]]
                      ELSE st
              ELSE st
    IN removeFromDomStore(s1, element)

removeEventStore(st, element) == Catch(TryRemoveEventStore(st, element))

\* modeTypes of removeElement: the modes it knows
ModeTypes == {1, 2}

\* Mutant: mode 2 removes the element from its parent as well
removeElement_alsoDetaches(st, key, mode) ==
    IF Truthy(key) /\ mode >= 1 /\ mode \in ModeTypes
    THEN IF mode = 1
         THEN removeEventStore(st, IF key \in DOMAIN st.ref THEN st.ref[key] ELSE Undefined)
         ELSE IF key \in DOMAIN st.ref
         THEN [DeleteRef(st, key) EXCEPT !.nodes = RemoveNode(@, st.ref[key])]
         ELSE DeleteRef(st, key)
    ELSE st

removeElement(st, key, mode) ==
    IF Truthy(key) /\ mode >= 1 /\ mode \in ModeTypes
    THEN IF mode = 1
         THEN removeEventStore(st, IF key \in DOMAIN st.ref THEN st.ref[key] ELSE Undefined)
         ELSE DeleteRef(st, key)
    ELSE st

\* ------------------------------------------------------------ BuildElement
\* A builder state is st = [nodes, ref, act, cb]; cb is the log of callback
\* invocations of the running createFromStruct call, each entry the number of
\* DOM nodes that existed when the callback ran.
\* A builder returns [st, el]: the state and the node, Undefined on failure.

\* document.createElement / createElementNS throw InvalidCharacterError on these
InvalidNames == {"1x"}

\* Element.attachShadow throws NotSupportedError unless the host is one of these
ShadowHosts == {"article", "aside", "blockquote", "body", "div", "footer", "h1", "h2",
                "h3", "h4", "h5", "h6", "header", "main", "nav", "p", "section", "span"}
ShadowModes == {"open", "closed"}

RECURSIVE SetAttrFrom(_, _, _)
SetAttrFrom(n, attrs, i) ==
    IF i < 1 THEN n
    ELSE SetAttrFrom(IF Truthy(attrs[i].name) THEN [n EXCEPT !.attr = @ \cup {attrs[i].name}]
                     ELSE n,
                     attrs, i - 1)

setAttr(st, element, attrs) ==
    [st EXCEPT !.nodes[element] = SetAttrFrom(@, attrs, Len(attrs))]

RECURSIVE SetAttrNSFrom(_, _, _)
SetAttrNSFrom(n, attrs, i) ==
    IF i < 1 THEN n
    ELSE SetAttrNSFrom(IF Truthy(attrs[i].name) THEN [n EXCEPT !.attrNS = @ \cup {attrs[i].name}]
                       ELSE n,
                       attrs, i - 1)

setAttrNS(st, element, attrs) ==
    [st EXCEPT !.nodes[element] = SetAttrNSFrom(@, attrs, Len(attrs))]

\* One pass of setData's loop body: the dataset entry, then the DomStore entry.
SetDataItem(st, element, item) ==
    IF Truthy(item.name)
    THEN LET s1 == [st EXCEPT !.nodes[element] = DatasetSet(@, item.name, item.value)]
         IN IF item.name = "state" THEN addElement(s1, item.value, element) ELSE s1
    ELSE st

RECURSIVE SetDataFrom(_, _, _, _)
SetDataFrom(st, element, datasets, i) ==
    IF i < 1 THEN st
    ELSE SetDataFrom(SetDataItem(st, element, datasets[i]), element, datasets, i - 1)

setData(st, element, datasets) == SetDataFrom(st, element, datasets, Len(datasets))

\* document.createElement(type) / createElementNS(ns, type): the new node is the
\* last of st.nodes
Made(st, node) == [st EXCEPT !.nodes = Append(@, node)]

\* if (attr?.length) setAttr(element, attr)
IfAttr(st, element, attrs) == IF Len(attrs) > 0 THEN setAttr(st, element, attrs) ELSE st

\* if (attrNS?.length) setAttrNS(element, attrNS)
IfAttrNS(st, element, attrs) == IF Len(attrs) > 0 THEN setAttrNS(st, element, attrs) ELSE st

\* if (dataset?.length) setData(element, dataset)
IfData(st, element, datasets) ==
    IF Len(datasets) > 0 THEN setData(st, element, datasets) ELSE st

\* Mutant: the two setters are swapped
createElementNS_swapsSetters(st, data, origin) ==
    IF data.type \in InvalidNames THEN [st |-> st, el |-> Undefined]
    ELSE [st |-> IfData(IfAttr(IfAttrNS(Made(st, [NewNode(data.type, SVGNS, "SVGElement", origin)
                                                    EXCEPT !.createdBy = "createElementNS"]),
                                       Len(st.nodes) + 1, data.attr),
                                Len(st.nodes) + 1, data.attrNS),
                         Len(st.nodes) + 1, data.dataset),
          el |-> Len(st.nodes) + 1]

createElementNS(st, data, origin) ==
    IF data.type \in InvalidNames THEN [st |-> st, el |-> Undefined]
    ELSE [st |-> IfData(IfAttrNS(IfAttr(Made(st, [NewNode(data.type, SVGNS, "SVGElement", origin)
                                                    EXCEPT !.createdBy = "createElementNS"]),
                                        Len(st.nodes) + 1, data.attr),
                                 Len(st.nodes) + 1, data.attrNS),
                         Len(st.nodes) + 1, data.dataset),
          el |-> Len(st.nodes) + 1]

buildElement(st, data, origin) ==
    IF data.type \in InvalidNames THEN [st |-> st, el |-> Undefined]
    ELSE [st |-> IfData(IfAttr(Made(st, [NewNode(data.type, HTMLNS, "HTMLElement", origin)
                                           EXCEPT !.createdBy = "createElement"]),
                               Len(st.nodes) + 1, data.attr),
                        Len(st.nodes) + 1, data.dataset),
          el |-> Len(st.nodes) + 1]

\* element.attachShadow({mode}): [st, el], el the new ShadowRoot, Undefined when it throws
AttachShadow(st, hostEl, mode, origin) ==
    IF \/ hostEl = Undefined
       \/ st.nodes[hostEl].kind # "HTMLElement"
       \/ st.nodes[hostEl].tag \notin ShadowHosts
       \/ mode \notin ShadowModes
       \/ st.nodes[hostEl].shadowRoot # Undefined
    THEN [st |-> st, el |-> Undefined]
    ELSE LET root == Len(st.nodes) + 1
             made == [NewNode("#shadow-root", NoValue, "ShadowRoot", origin)
                         EXCEPT !.host = hostEl, !.shadowMode = mode,
                                !.createdBy = "attachShadow"]
         IN [st |-> [st EXCEPT !.nodes = [Append(@, made) EXCEPT
                                             ![hostEl].shadowRoot = root]],
             el |-> root]

\* What destructuring {dataset, attrNS, attr, type} reads from a live node that
\* is passed where an element description is expected: four undefined values.
NodeAsData == [type |-> "undefined", attr |-> <<>>, attrNS |-> <<>>, dataset |-> <<>>]

Temp(origin) == [origin EXCEPT !.role = "temp"]
Shadow(origin) == [origin EXCEPT !.role = "shadow"]

\* if(shadow && childElement.dataset?.state): st is the state after appendChild
ShadowOrChild(st, childElement, shadow, origin) ==
    IF Truthy(shadow) /\ Truthy(DatasetGet(st.nodes[childElement], "state"))
    THEN AttachShadow(st, getElement(st, DatasetGet(st.nodes[childElement], "state")),
                      shadow, Shadow(origin))
    ELSE [st |-> st, el |-> childElement]

\* createHTMLElement once buildElement has returned b
AppendBuilt(b, parent, shadow, origin) ==
    \* appendChild(undefined) throws a TypeError, whatever the parent
    IF b.el = Undefined THEN [st |-> b.st, el |-> Undefined]
    ELSE ShadowOrChild([b.st EXCEPT !.nodes =
                           AppendChild(@, IF parent # Undefined /\ b.st.nodes[parent].kind \in
                                                {"HTMLElement", "SVGElement", "ShadowRoot"}
                                          THEN parent
                                          ELSE Body,
                                       b.el)],
                       b.el, shadow, origin)

createHTMLElement(st, parent, element, shadow, origin) ==
    AppendBuilt(buildElement(st, element, origin), parent, shadow, origin)

\* parentElement.appendChild(childElement), p what createElementNS(parent) returned
AppendToTemp(p, childElement) ==
    [st |-> [p.st EXCEPT !.nodes = AppendChild(@, p.el, childElement)],
     el |-> childElement]

\* createSVGElement once createElementNS has returned c
AppendBuiltNS(c, parent, origin) ==
    IF parent = Undefined THEN c
    ELSE IF c.el = Undefined THEN [st |-> c.st, el |-> Undefined]
    ELSE IF c.st.nodes[parent].kind \in {"HTMLElement", "SVGElement"}
    THEN [st |-> [c.st EXCEPT !.nodes = AppendChild(@, parent, c.el)], el |-> c.el]
    ELSE \* typeof parent === "object": the parent is built as if it were a description
         AppendToTemp(createElementNS(c.st, NodeAsData, Temp(origin)), c.el)

createSVGElement(st, parent, element, shadow, origin) ==
    AppendBuiltNS(createElementNS(st, element, origin), parent, origin)

\* ------------------------------------------------- CreateElementFromStruct
\* EventApp.EventActions, the action registry: action name -> handler.
EventActions == [clickHelloWord |-> "clickHelloWord"]

ResolveAction(name) ==
    IF name \in DOMAIN EventActions THEN EventActions[name] ELSE NoValue

\* String.prototype.toLowerCase on the element types in use
ToLowerCase(s) ==
    CASE s = "SVG" -> "svg"
      [] s = "Svg" -> "svg"
      [] s = "DIV" -> "div"
      [] OTHER -> s

TypeSelect(type) ==
    IF Truthy(type) /\ type = "svg" THEN "createSVGElement" ELSE "createHTMLElement"

\* The call TypeSelect(...)(data)
CallBuilder(builder, st, parent, element, shadow, origin) ==
    IF builder = "createSVGElement"
    THEN createSVGElement(st, parent, element, shadow, origin)
    ELSE createHTMLElement(st, parent, element, shadow, origin)

\* Mutant: the action is not looked up before registering; the name stands in
\* for a handler that does not resolve
createEventElement_skipsLookup(st, struct, el) ==
    IF Truthy(struct.event.action) /\ Truthy(struct.event.type)
    THEN registerEventStore(st, el, struct.event.type,
                            IF Truthy(ResolveAction(struct.event.action))
                            THEN ResolveAction(struct.event.action)
                            ELSE struct.event.action,
                            struct.event.node)
    ELSE st

createEventElement(st, struct, el) ==
    IF /\ Truthy(struct.event.action)
       /\ Truthy(struct.event.type)
       /\ Truthy(ResolveAction(struct.event.action))
    THEN registerEventStore(st, el, struct.event.type,
                            ResolveAction(struct.event.action), struct.event.node)
    ELSE st

\* cb({res: "done"})
CallCb(st) == [st EXCEPT !.cb = Append(@, Len(st.nodes))]

\* createFromStruct and createChildren return [st, struct]: the state, and the
\* description object as the call leaves it.
RECURSIVE createFromStruct(_, _, _, _, _)

\* The loop of createChildren from index i down: arr is the reversed array
\* (1-based here, so the code's i === 0 is i = 1).
RECURSIVE ChildrenFrom(_, _, _, _, _, _)

\* One pass of the loop: r is what createFromStruct made of the child arr[i]
ChildrenStep(r, arr, i, el, cb, origin) ==
    IF r.st.threw THEN [st |-> r.st, arr |-> [arr EXCEPT ![i] = r.struct]]
    ELSE IF i = 1 /\ cb
    THEN [st |-> CallCb(r.st), arr |-> [arr EXCEPT ![i] = r.struct]]
    ELSE ChildrenFrom(r.st, [arr EXCEPT ![i] = r.struct], i - 1, el, cb, origin)

\* The loop of createChildren from index i down: arr is the reversed array
\* (1-based here, so the code's i === 0 is i = 1).
ChildrenFrom(st, arr, i, el, cb, origin) ==
    IF i < 1 THEN [st |-> st, arr |-> arr]
    ELSE ChildrenStep(createFromStruct(st, arr[i], el, cb,
                                       [origin EXCEPT !.path = Append(@, Len(arr) + 1 - i)]),
                      arr, i, el, cb, origin)

\* struct.children once the loop has run over the reversed array
ChildrenDone(r, struct) == [st |-> r.st, struct |-> [struct EXCEPT !.children = r.arr]]

createChildren(st, struct, el, cb, origin) ==
    IF struct.hasChildren
    THEN \* struct.children.reverse() reverses the array in place
         ChildrenDone(ChildrenFrom(st, Reverse(struct.children), Len(struct.children),
                                   el, cb, origin),
                      struct)
    ELSE [st |-> IF cb THEN CallCb(st) ELSE st, struct |-> struct]

\* History: what DomStore.getElement answers for the node's "state" tags at
\* the moment its builder has returned (got), and what it answered before the
\* builder ran (old).
Probe(before, st, struct, origin) ==
    [st EXCEPT !.probes = @ \cup
        {[path |-> origin.path, key |-> struct.dataset[i].value,
          old |-> getElement(before, struct.dataset[i].value),
          got |-> getElement(st, struct.dataset[i].value)] :
            i \in {j \in 1..Len(struct.dataset) : struct.dataset[j].name = "state"}}]

\* History: the description nodes whose builder returned undefined, and the
\* store's answers for the others. before: the state when the builder was called
Noted(before, b, struct, origin) ==
    IF b.el = Undefined THEN [b.st EXCEPT !.failed = @ \cup {origin.path}]
    ELSE Probe(before, b.st, struct, origin)

\* if (struct["text"]) el.textContent = struct["text"]
SetText(st, el, struct) ==
    IF Truthy(struct.text) THEN [st EXCEPT !.nodes[el].text = struct.text] ELSE st

\* if (struct["html"]) el.innerHTML = struct["html"]
SetHtml(st, el, struct) ==
    IF Truthy(struct.html) THEN [st EXCEPT !.nodes[el].text = struct.html] ELSE st

\* createFromStruct once the builder has returned b
AfterBuilder(before, b, struct, cb, origin) ==
    IF b.el = Undefined /\ (Truthy(struct.text) \/ Truthy(struct.html))
    THEN \* assigning a property of undefined throws
         [st |-> Throw(Noted(before, b, struct, origin)), struct |-> struct]
    ELSE createChildren(createEventElement(SetHtml(SetText(Noted(before, b, struct, origin),
                                                           b.el, struct),
                                                   b.el, struct),
                                           struct, b.el),
                        struct, b.el, cb, origin)

\* The try block of createFromStruct
TryCreateFromStruct(st, struct, parentArg, cb, origin) ==
    IF ~Truthy(struct.element) THEN [st |-> st, struct |-> struct]
    ELSE AfterBuilder(st,
                      CallBuilder(TypeSelect(ToLowerCase(struct.element)), st,
                                  \* default parameter: parent = document.body
                                  IF parentArg = Undefined THEN Body ELSE parentArg,
                                  [type |-> struct.element, attr |-> struct.attr,
                                   attrNS |-> struct.attrNS, dataset |-> struct.dataset],
                                  struct.shadow, origin),
                      struct, cb, origin)

\* Mutant: no try/catch around the body
createFromStruct_noCatch(st, struct, parentArg, cb, origin) ==
    TryCreateFromStruct(st, struct, parentArg, cb, origin)

\* [st, struct] with what catch (err) leaves of the state
Caught(r) == [r EXCEPT !.st = Catch(@)]

createFromStruct(st, struct, parentArg, cb, origin) ==
    Caught(TryCreateFromStruct(st, struct, parentArg, cb, origin))

\* ------------------------------------------------------------ descriptions
NoEvent == [type |-> NoValue, action |-> NoValue, node |-> NoValue]

StateTag(k) == <<[name |-> "state", value |-> k]>>

\* A description node without children
Desc(element, attr, dataset, shadow, text, event) ==
    [element |-> element, attr |-> attr, attrNS |-> <<>>, dataset |-> dataset,
     shadow |-> shadow, text |-> text, html |-> NoValue, event |-> event,
     hasChildren |-> FALSE, children |-> <<>>]

WithChildren(head, children) ==
    [head EXCEPT !.hasChildren = TRUE, !.children = children]

Click == [type |-> "mousedown", action |-> "clickHelloWord", node |-> NoValue]
Unresolved == [type |-> "mousedown", action |-> "doesNotExist", node |-> "n1"]
ViewBox == <<[name |-> "viewBox", value |-> "0 0 10 10"]>>
Fill == <<[name |-> "fill", value |-> "none"]>>

RootHeads ==
    { Desc("div", <<>>, <<>>, NoValue, NoValue, NoEvent),
      Desc("div", <<>>, StateTag("a"), NoValue, NoValue, Unresolved),
      Desc("div", <<>>, StateTag("a"), "open", NoValue, Click),
      Desc("button", <<>>, StateTag("b"), "open", NoValue, NoEvent),
      [Desc("svg", ViewBox, <<>>, NoValue, NoValue, NoEvent) EXCEPT !.attrNS = Fill],
      Desc("1x", <<>>, <<>>, NoValue, NoValue, NoEvent),
      Desc(NoValue, <<>>, <<>>, NoValue, NoValue, NoEvent) }

ChildHeads ==
    { Desc("span", <<>>, <<>>, NoValue, "hi", NoEvent),
      Desc("span", <<>>, StateTag("a"), NoValue, NoValue, Click),
      Desc("span", <<>>, StateTag(""), NoValue, NoValue, Unresolved),
      Desc("svg", <<>>, StateTag("b"), NoValue, NoValue, NoEvent),
      Desc("circle", <<>>, <<>>, NoValue, NoValue, NoEvent),
      Desc("button", <<>>, StateTag("b"), "open", NoValue, NoEvent),
      Desc("1x", <<>>, <<>>, NoValue, NoValue, Click),
      Desc("1x", <<>>, <<>>, NoValue, "hi", NoEvent) }

\* The children whose builder returns undefined
FailingHeads == {c \in ChildHeads : c.element \in InvalidNames \/ c.element = "button"}

LeafHeads ==
    { Desc("span", <<>>, <<>>, NoValue, NoValue, NoEvent),
      Desc("svg", <<>>, <<>>, NoValue, NoValue, NoEvent) }

\* The children arrays: one child that may have one child of its own, two
\* childless children, or a failing child between two others.
ChildLists ==
    {<<c>> : c \in ChildHeads}
    \cup {<<WithChildren(c, <<g>>)>> : c \in ChildHeads, g \in LeafHeads}
    \cup {<<c, d>> : c \in ChildHeads, d \in ChildHeads}
    \cup {<<c, f, d>> : c \in ChildHeads, f \in FailingHeads, d \in ChildHeads}

TreeStructs ==
    RootHeads
    \cup {WithChildren(r, <<>>) : r \in RootHeads}
    \cup {WithChildren(r, cs) : r \in RootHeads, cs \in ChildLists}

\* The descriptions of the lifecycle specification: one node, or one node with one child
SmallStructs ==
    { Desc("div", <<>>, <<>>, NoValue, NoValue, Click),
      Desc("div", <<>>, StateTag("a"), NoValue, NoValue, Click),
      Desc("div", <<>>, StateTag("b"), NoValue, NoValue, NoEvent),
      Desc("div", <<>>, StateTag("a"), "open", NoValue, Click),
      Desc("svg", <<>>, StateTag("b"), NoValue, NoValue, Click),
      Desc("span", <<>>, StateTag(""), NoValue, NoValue, Unresolved),
      WithChildren(Desc("div", <<>>, StateTag("a"), NoValue, NoValue, NoEvent),
                   <<Desc("span", <<>>, StateTag("b"), NoValue, "hi", Click)>>) }

\* ------------------------------------------------------------------ state
EmptyFn == [x \in {} |-> Undefined]

BodyNode == [NewNode("body", HTMLNS, "HTMLElement", [call |-> 0, path |-> <<>>, role |-> "body"])
                EXCEPT !.createdBy = "document"]

\* The record of the operation just run.  before: the nodes that existed
\* before it; the other fields are the arguments and, for createFromStruct,
\* the description before and after, the callback log and the failed builds.
NoOp ==
    [op |-> "none", call |-> 0, before |-> 1, key |-> NoValue, mode |-> 0,
     element |-> Undefined, type |-> NoValue, handler |-> NoValue,
     struct |-> <<>>, after |-> <<>>, parent |-> Undefined, cb |-> FALSE,
     cbLog |-> <<>>, failed |-> {}, probes |-> {},
     had |-> <<>>,        \* the registrations the element had before the operation
     wasUnder |-> Undefined,  \* the parent the element had before the operation
     repeat |-> FALSE,    \* the same teardown of the same element ran just before
     escaped |-> FALSE]   \* an exception left the operation

Store == [nodes |-> nodes, ref |-> ElementRefStore, act |-> ActionRefStore,
          threw |-> FALSE, cb |-> <<>>, failed |-> {}, probes |-> {}]

Had(element) == IF element \in DOMAIN ActionRefStore THEN ActionRefStore[element] ELSE <<>>
WasUnder(element) == IF element = Undefined THEN Undefined ELSE nodes[element].parent

Install(st) ==
    /\ nodes' = st.nodes
    /\ ElementRefStore' = st.ref
    /\ ActionRefStore' = st.act

Init ==
    /\ nodes = <<BodyNode>>
    /\ ElementRefStore = EmptyFn
    /\ ActionRefStore = EmptyFn
    /\ held = <<>>
    /\ last = NoOp
    /\ steps = 0

Keys == {"a", "b"}
KeyArgs == Keys \cup {""}
ModeArgs == {0, 1, 2, 3}
TypeArgs == {"mousedown", "click"}
HandlerArgs == {"clickHelloWord", "other"}

\* The nodes a caller can hold a reference to, document.body apart
Elements == 2..Len(nodes)
ElementArgs == Elements \cup {Undefined}

\* ---------------------------------------------------------------- actions
\* UtilsApp.CreateElementFromStruct.createFromStruct({struct, parent}, cb)
CompileCall(struct, parent, cb, maxNodes) ==
    \E r \in {createFromStruct(Store, struct, parent, cb,
                                [call |-> last.call + 1, path |-> <<>>, role |-> "node"])} :
       /\ Len(r.st.nodes) <= maxNodes
       /\ Install(r.st)
       /\ held' = <<r.struct>>
       /\ last' = [NoOp EXCEPT !.op = "compile", !.call = last.call + 1,
                               !.before = Len(nodes), !.struct = <<struct>>,
                               !.after = <<r.struct>>, !.parent = parent, !.cb = cb,
                               !.cbLog = r.st.cb, !.failed = r.st.failed,
                               !.probes = r.st.probes, !.escaped = r.st.threw]
       /\ steps' = steps + 1

Compile ==
    /\ steps < MaxSteps
    /\ \E struct \in SmallStructs, parent \in ElementArgs, cb \in BOOLEAN :
          CompileCall(struct, parent, cb, MaxNodes)

\* DomStore.addElement({key, value})
AddElement ==
    /\ steps < MaxSteps
    /\ \E key \in KeyArgs, value \in ElementArgs :
          /\ Install(addElement(Store, key, value))
          /\ last' = [NoOp EXCEPT !.op = "addElement", !.call = last.call,
                                  !.before = Len(nodes), !.key = key, !.element = value,
                                  !.escaped = addElement(Store, key, value).threw]
          /\ steps' = steps + 1
          /\ UNCHANGED held

\* DomStore.removeElement(key, mode)
RemoveElement ==
    /\ steps < MaxSteps
    /\ \E key \in KeyArgs, mode \in ModeArgs :
          /\ Install(removeElement(Store, key, mode))
          /\ last' = [NoOp EXCEPT !.op = "removeElement", !.call = last.call,
                                  !.before = Len(nodes), !.key = key, !.mode = mode,
                                  !.element = getElement(Store, key),
                                  !.had = Had(getElement(Store, key)),
                                  !.wasUnder = WasUnder(getElement(Store, key)),
                                  !.escaped = removeElement(Store, key, mode).threw]
          /\ steps' = steps + 1
          /\ UNCHANGED held

\* EventStore.registerEventStore({element, type, handler})
Register ==
    /\ steps < MaxSteps
    /\ \E element \in ElementArgs, type \in TypeArgs, handler \in HandlerArgs :
          /\ Install(registerEventStore(Store, element, type, handler, NoValue))
          /\ last' = [NoOp EXCEPT !.op = "registerEventStore", !.call = last.call,
                                  !.before = Len(nodes), !.element = element,
                                  !.type = type, !.handler = handler,
                                  !.had = Had(element),
                                  !.escaped = registerEventStore(Store, element, type,
                                                                 handler, NoValue).threw]
          /\ steps' = steps + 1
          /\ UNCHANGED held

\* EventStore.removeEventStore(element)
Unregister ==
    /\ steps < MaxSteps
    /\ \E element \in ElementArgs :
          /\ Install(removeEventStore(Store, element))
          /\ last' = [NoOp EXCEPT !.op = "removeEventStore", !.call = last.call,
                                  !.before = Len(nodes), !.element = element,
                                  !.had = Had(element),
                                  !.wasUnder = WasUnder(element),
                                  !.repeat = (last.op = "removeEventStore"
                                              /\ last.element = element),
                                  !.escaped = removeEventStore(Store, element).threw]
          /\ steps' = steps + 1
          /\ UNCHANGED held

Next == Compile \/ AddElement \/ RemoveElement \/ Register \/ Unregister

Spec == Init /\ [][Next]_vars

\* One description object: compiled once into the page, then compiled again.
\* The page is empty, or holds a container that an earlier call built.
Seed == Desc("div", <<>>, StateTag("a"), NoValue, NoValue, Click)

EmptyPage == [nodes |-> <<BodyNode>>, ref |-> EmptyFn, act |-> EmptyFn,
              threw |-> FALSE, cb |-> <<>>, failed |-> {}, probes |-> {}]

SeededPage ==
    createFromStruct(EmptyPage, Seed, Undefined, FALSE,
                     [call |-> 0, path |-> <<>>, role |-> "node"]).st

InitTree ==
    /\ \E page \in {EmptyPage, SeededPage} :
          /\ nodes = page.nodes
          /\ ElementRefStore = page.ref
          /\ ActionRefStore = page.act
    /\ held = <<>>
    /\ last = [NoOp EXCEPT !.before = Len(nodes)]
    /\ steps = 0

CompileTree ==
    /\ last.call = 0
    /\ \E struct \in TreeStructs, parent \in ElementArgs, cb \in BOOLEAN :
          CompileCall(struct, parent, cb, MaxTreeNodes)

Recompile ==
    /\ last.call >= 1
    /\ last.call <= MaxRecompiles
    /\ \E parent \in {last.parent}, cb \in BOOLEAN :
          CompileCall(held[1], parent, cb, MaxTreeNodes)

NextTree == CompileTree \/ Recompile

SpecTree == InitTree /\ [][NextTree]_vars

\* ------------------------------------------------- reading a description
RECURSIVE Paths(_)
\* The paths of the description nodes of struct: <<>> is the root, <<2, 1>> the
\* first child of the second child.
Paths(struct) ==
    {<<>>} \cup UNION {{<<i>> \o p : p \in Paths(struct.children[i])} :
                          i \in 1..Len(struct.children)}

RECURSIVE NodeAt(_, _)
NodeAt(struct, path) ==
    IF path = <<>> THEN struct ELSE NodeAt(struct.children[path[1]], Tail(path))

ParentPath(path) == SubSeq(path, 1, Len(path) - 1)

StateTagOf(d) ==
    IF \E i \in 1..Len(d.dataset) : d.dataset[i].name = "state"
    THEN (CHOOSE e \in {d.dataset[i] : i \in 1..Len(d.dataset)} : e.name = "state").value
    ELSE NoValue

IsSvg(d) == ToLowerCase(d.element) = "svg"

\* The description node names an element the document can create, and asks
\* for a rendering boundary only where the host can carry one.
Constructible(d) ==
    /\ Truthy(d.element)
    /\ d.element \notin InvalidNames
    /\ (Truthy(d.shadow) /\ Truthy(StateTagOf(d)) /\ ~IsSvg(d))
          => (d.element \in ShadowHosts /\ d.shadow \in ShadowModes)

AllConstructible(struct) == \A p \in Paths(struct) : Constructible(NodeAt(struct, p))

\* ------------------------------------------------ reading the last call
Compiled == last.op = "compile"
Given == last.struct[1]        \* the description as it was passed
RootParent == IF last.parent = Undefined THEN Body ELSE last.parent

\* The elements built for the description node at path by the last call
BuiltFor(path) ==
    {e \in 1..Len(nodes) :
        nodes[e].origin = [call |-> last.call, path |-> path, role |-> "node"]}

TheBuilt(path) == CHOOSE e \in BuiltFor(path) : TRUE

\* Where the children of element e are to go: its rendering boundary when
\* it has one, the element itself otherwise.
ContainerOf(e) == IF nodes[e].shadowRoot # Undefined THEN nodes[e].shadowRoot ELSE e

Position(seq, x) == CHOOSE k \in 1..Len(seq) : seq[k] = x

\* ------------------------------------------------------------------ C1
\* C1: for every description tree whose nodes all have an element type (one
\* the document can create), one createFromStruct call builds exactly one
\* element per description node, attaches it under the element built for its
\* described parent (the parent argument, or document.body, for the root), and
\* keeps the declared order of the children.
C1_OnePerNodeUnderParentInOrder ==
    (Compiled /\ AllConstructible(Given)) =>
        \A p \in Paths(Given) :
            /\ Cardinality(BuiltFor(p)) = 1
            /\ nodes[TheBuilt(p)].parent =
                  (IF p = <<>> THEN RootParent
                   ELSE IF BuiltFor(ParentPath(p)) = {} THEN Undefined
                   ELSE ContainerOf(TheBuilt(ParentPath(p))))
            /\ \A i, j \in 1..Len(NodeAt(Given, p).children) :
                  (/\ i < j
                   /\ BuiltFor(Append(p, i)) # {}
                   /\ BuiltFor(Append(p, j)) # {}
                   /\ nodes[TheBuilt(Append(p, i))].parent = ContainerOf(TheBuilt(p))
                   /\ nodes[TheBuilt(Append(p, j))].parent = ContainerOf(TheBuilt(p)))
                  => Position(nodes[ContainerOf(TheBuilt(p))].kids, TheBuilt(Append(p, i)))
                       < Position(nodes[ContainerOf(TheBuilt(p))].kids, TheBuilt(Append(p, j)))

\* ------------------------------------------------------------------ C2
\* C2 as stated: for every built description node with a "state" tag of value
\* K, DomStore.getElement(K) returns the element built for that node as soon
\* as the node is built, for every K.
C2_GetReturnsBuiltForEveryKey ==
    Compiled =>
        \A pr \in last.probes :
            BuiltFor(pr.path) # {} /\ pr.got = TheBuilt(pr.path)

\* C2 amended: the same for every non-empty K, whatever ElementRefStore held
\* under K before; for the empty K nothing is stored.
C2_GetReturnsBuiltForNonEmptyKey ==
    Compiled =>
        \A pr \in last.probes :
            IF Truthy(pr.key)
            THEN BuiltFor(pr.path) # {} /\ pr.got = TheBuilt(pr.path)
            ELSE pr.got = Undefined

\* Witness: a node was built under a key that another element held before
C2_Witness ==
    /\ Compiled
    /\ \E pr \in last.probes :
          /\ Truthy(pr.key)
          /\ pr.old # Undefined
          /\ BuiltFor(pr.path) # {}
          /\ pr.got = TheBuilt(pr.path)
          /\ pr.old # pr.got

\* ------------------------------------------------------------ teardown
Pairs(eventList) == {<<eventList[i].type, eventList[i].handler>> : i \in 1..Len(eventList)}

\* ------------------------------------------------------------------ C3
\* C3: after removeElement(K, 1) on a key K that mapped to element E, the
\* listeners registered for E are detached, E has no ActionRefStore entry, E
\* has no parent, and K is no longer mapped, however K -> E was stored.
C3_FullRemoveDeletesMapping ==
    (last.op = "removeElement" /\ last.mode = 1 /\ last.element # Undefined) =>
        /\ nodes[last.element].listeners \cap Pairs(last.had) = {}
        /\ last.element \notin DOMAIN ActionRefStore
        /\ nodes[last.element].parent = Undefined
        /\ last.key \notin DOMAIN ElementRefStore

\* ------------------------------------------------------------------ C4
\* C4: removeElement(K, 2) deletes the ElementRefStore entry of K and nothing
\* else: the DOM (parents, listeners), the ActionRefStore and every other
\* ElementRefStore entry are as before.
C4_ReferenceOnlyFrame ==
    [][(last'.op = "removeElement" /\ last'.mode = 2) =>
          /\ nodes' = nodes
          /\ ActionRefStore' = ActionRefStore
          /\ ElementRefStore' = [k \in DOMAIN ElementRefStore \ {last'.key} |->
                                    ElementRefStore[k]]]_vars

\* Witness: a mapped, attached element with listeners lost its mapping by
\* mode 2, and another mapping is still there
C4_Witness ==
    /\ last.op = "removeElement" /\ last.mode = 2
    /\ last.element # Undefined
    /\ last.key \notin DOMAIN ElementRefStore
    /\ nodes[last.element].parent # Undefined
    /\ last.element \in DOMAIN ActionRefStore
    /\ nodes[last.element].listeners # {}
    /\ DOMAIN ElementRefStore # {}

\* ------------------------------------------------------------------ C5
\* C5: every registration is kept and attached (two of different types are
\* both in the entry and both in the listener list), and after
\* removeEventStore(E) none of E's registered listeners is attached, E has no
\* ActionRefStore entry and E has no parent.
C5_UnregisterAllDetaches ==
    /\ \A e \in DOMAIN ActionRefStore : Pairs(ActionRefStore[e]) \subseteq nodes[e].listeners
    /\ (/\ last.op = "registerEventStore"
        /\ last.element # Undefined)
          => ActionRefStore[last.element] =
                Append(last.had, [type |-> last.type, handler |-> last.handler,
                                  nodeId |-> NoValue])
    /\ (last.op = "removeEventStore" /\ last.element # Undefined) =>
          /\ nodes[last.element].listeners \cap Pairs(last.had) = {}
          /\ nodes[last.element].listeners = {}
          /\ last.element \notin DOMAIN ActionRefStore
          /\ nodes[last.element].parent = Undefined

\* Witness: an attached element with two registrations of different types was torn down
C5_Witness ==
    /\ last.op = "removeEventStore"
    /\ last.element # Undefined
    /\ last.wasUnder # Undefined
    /\ \E i, j \in 1..Len(last.had) : last.had[i].type # last.had[j].type
    /\ nodes[last.element].listeners = {}
    /\ nodes[last.element].parent = Undefined

\* ------------------------------------------------------------------ C10
\* C10: removeEventStore(E) called again right after removeEventStore(E)
\* throws nothing and leaves the DOM, the ElementRefStore and the
\* ActionRefStore as they are.
C10_SecondUnregisterIsNoOp ==
    [][(last'.op = "removeEventStore" /\ last'.repeat) =>
          /\ nodes' = nodes
          /\ ElementRefStore' = ElementRefStore
          /\ ActionRefStore' = ActionRefStore
          /\ ~last'.escaped]_vars

\* Witness: the second teardown of an element that carries a "state" tag
C10_Witness ==
    /\ last.op = "removeEventStore" /\ last.repeat
    /\ last.element # Undefined
    /\ nodes[last.element].kind = "HTMLElement"
    /\ Truthy(DatasetGet(nodes[last.element], "state"))
    /\ nodes[last.element].parent = Undefined

\* ------------------------------------------------------------------ C6
\* C6: a createFromStruct call that is given a callback invokes it exactly
\* once, when every node of the description has been built.
C6_CallbackExactlyOnce ==
    (Compiled /\ last.cb /\ AllConstructible(Given)) =>
        /\ Len(last.cbLog) = 1
        /\ last.cbLog[1] = Len(nodes)

\* ------------------------------------------------------------------ C7
Names(attrs) == {attrs[i].name : i \in 1..Len(attrs)}

CircleChildren(struct) ==
    {i \in 1..Len(struct.children) : struct.children[i].element = "circle"}

\* C7 as stated: for a root "svg" with plain attributes and a "circle" child,
\* both nodes are created in the SVG namespace by createElementNS and neither
\* goes through setAttr or document.createElement.
C7_SvgAndChildNamespaced ==
    (/\ Compiled
     /\ Given.element = "svg"
     /\ Len(Given.attr) > 0
     /\ CircleChildren(Given) # {}) =>
        \A p \in {<<>>} \cup {<<i>> : i \in CircleChildren(Given)} :
            /\ BuiltFor(p) # {}
            /\ nodes[TheBuilt(p)].ns = SVGNS
            /\ nodes[TheBuilt(p)].createdBy = "createElementNS"
            /\ nodes[TheBuilt(p)].attr = {}

\* C7 amended: the builder is chosen per node by its own element type.  A
\* node of type "svg" is created by createElementNS in the SVG namespace, its
\* plain attributes set through setAttr and its attrNS through setAttrNS;
\* every other node, a "circle" under an svg included, is created by
\* document.createElement in the HTML namespace, and is appended under the
\* svg element.
C7_BuilderByOwnType ==
    Compiled =>
        \A p \in Paths(Given) :
            BuiltFor(p) # {} =>
                LET d == NodeAt(Given, p)
                    n == nodes[TheBuilt(p)]
                IN /\ n.attr = Names(d.attr)
                   /\ IF IsSvg(d)
                      THEN /\ n.ns = SVGNS
                           /\ n.createdBy = "createElementNS"
                           /\ n.attrNS = Names(d.attrNS)
                      ELSE /\ n.ns = HTMLNS
                           /\ n.createdBy = "createElement"
                           /\ n.attrNS = {}
                   /\ (p # <<>> /\ Given.element = "svg" /\ Len(p) = 1
                       /\ BuiltFor(<<>>) # {} /\ ~IsSvg(d))
                         => n.parent = TheBuilt(<<>>)

\* Witness: an svg root with viewBox and a circle child, both built
C7_Witness ==
    /\ Compiled
    /\ Given.element = "svg"
    /\ Len(Given.attr) > 0
    /\ BuiltFor(<<>>) # {}
    /\ "viewBox" \in nodes[TheBuilt(<<>>)].attr
    /\ \E i \in CircleChildren(Given) :
          /\ BuiltFor(<<i>>) # {}
          /\ nodes[TheBuilt(<<i>>)].ns = HTMLNS
          /\ nodes[TheBuilt(<<i>>)].parent = TheBuilt(<<>>)

\* ------------------------------------------------------------------ C8
\* The description without the node at path (path # <<>>)
RECURSIVE DeleteAt(_, _)
DeleteAt(struct, path) ==
    IF Len(path) = 1
    THEN [struct EXCEPT !.children =
             SubSeq(@, 1, path[1] - 1) \o SubSeq(@, path[1] + 1, Len(@))]
    ELSE [struct EXCEPT !.children[path[1]] = DeleteAt(@, Tail(path))]

\* A subtree of the DOM ns without node identities: what was built, in order
RECURSIVE Shape(_, _)
Shape(ns, e) ==
    [tag |-> ns[e].tag, ns |-> ns[e].ns, dataset |-> ns[e].dataset,
     attr |-> ns[e].attr, attrNS |-> ns[e].attrNS, text |-> ns[e].text,
     listeners |-> ns[e].listeners,
     shadow |-> IF ns[e].shadowRoot = Undefined THEN <<>>
                ELSE <<Shape(ns, ns[e].shadowRoot)>>,
     kids |-> [i \in 1..Len(ns[e].kids) |-> Shape(ns, ns[e].kids[i])]]

BuiltIn(ns, call, path) ==
    {e \in 1..Len(ns) : ns[e].origin = [call |-> call, path |-> path, role |-> "node"]}

\* The children of the container built for the node at path q, the nodes
\* in except left out
ChildShapes(ns, call, q, except) ==
    LET e == CHOOSE x \in BuiltIn(ns, call, q) : TRUE
        c == IF ns[e].shadowRoot # Undefined THEN ns[e].shadowRoot ELSE e
        kept == SelectSeq(ns[c].kids, LAMBDA k : k \notin except)
    IN [i \in 1..Len(kept) |-> Shape(ns, kept[i])]

\* The DOM the call would have left had the description not held the node at path
WithoutNode(path) ==
    createFromStruct(Store, DeleteAt(last'.struct[1], path), last'.parent, last'.cb,
                     [call |-> last'.call, path |-> <<>>, role |-> "node"]).st.nodes

\* C8: no exception leaves createFromStruct, and for every node whose build
\* failed under a parent that was built, the parent's other children (earlier
\* and later ones, with their subtrees) are built and attached exactly as the
\* same call builds them from the description without the failed node.
C8_FailureLeavesSiblings ==
    [][last'.op = "compile" =>
          /\ ~last'.escaped
          /\ \A p \in last'.failed :
                (p # <<>> /\ ParentPath(p) \notin last'.failed)
                   => ChildShapes(nodes', last'.call, ParentPath(p),
                                  BuiltIn(nodes', last'.call, p))
                        = ChildShapes(WithoutNode(p), last'.call, ParentPath(p), {})]_vars

\* Witness: the second of three children failed on an exception, and the
\* first and the third are attached under the parent
C8_Witness ==
    /\ Compiled
    /\ <<2>> \in last.failed
    /\ Truthy(NodeAt(Given, <<2>>).text)
    /\ <<>> \notin last.failed
    /\ Len(Given.children) = 3
    /\ BuiltFor(<<1>>) # {} /\ BuiltFor(<<3>>) # {}
    /\ nodes[ContainerOf(TheBuilt(<<>>))].kids = <<TheBuilt(<<1>>), TheBuilt(<<3>>)>>

\* ------------------------------------------------------------------ C9
UnresolvedEvent(d) ==
    /\ Truthy(d.event.type)
    /\ Truthy(d.event.action)
    /\ ~Truthy(ResolveAction(d.event.action))

Prefixes(path) == {SubSeq(path, 1, n) : n \in 0..Len(path)}

\* C9: a node whose event names an action that does not resolve is built and
\* attached; neither it nor its rendering boundary gets a listener or an
\* ActionRefStore entry; its children are built; no exception leaves the call.
C9_UnresolvedActionSkipped ==
    Compiled =>
        /\ ~last.escaped
        /\ \A p \in Paths(Given) :
              (/\ UnresolvedEvent(NodeAt(Given, p))
               /\ \A q \in Prefixes(p) : Constructible(NodeAt(Given, q)))
                 => /\ BuiltFor(p) # {}
                    /\ nodes[TheBuilt(p)].parent # Undefined
                    /\ nodes[TheBuilt(p)].listeners = {}
                    /\ nodes[ContainerOf(TheBuilt(p))].listeners = {}
                    /\ TheBuilt(p) \notin DOMAIN ActionRefStore
                    /\ ContainerOf(TheBuilt(p)) \notin DOMAIN ActionRefStore
                    /\ \A i \in 1..Len(NodeAt(Given, p).children) :
                          Constructible(NodeAt(Given, Append(p, i)))
                             => /\ BuiltFor(Append(p, i)) # {}
                                /\ nodes[TheBuilt(Append(p, i))].parent # Undefined

\* Witness: a root with an unresolved action and two built children
C9_Witness ==
    /\ Compiled
    /\ UnresolvedEvent(Given)
    /\ BuiltFor(<<>>) # {}
    /\ nodes[TheBuilt(<<>>)].parent = RootParent
    /\ nodes[TheBuilt(<<>>)].listeners = {}
    /\ Len(nodes[TheBuilt(<<>>)].kids) = 2

\* ------------------------------------------------------------------ C11
\* q lies strictly below p in the description
Below(p, q) == Len(q) > Len(p) /\ SubSeq(q, 1, Len(p)) = p

\* C11: when the builder of a description node returns undefined, no element
\* is built for any descendant of that node: none is attached anywhere (the
\* document body included) and none enters ElementRefStore or ActionRefStore.
C11_FailedSubtreeAborted ==
    Compiled =>
        \A p \in last.failed : \A q \in Paths(Given) :
            Below(p, q) => BuiltFor(q) = {}

\* ------------------------------------------------------------------ C12
\* The rendering boundaries the last call attached for the description node at path
BoundaryFor(path) ==
    {e \in 1..Len(nodes) :
        nodes[e].origin = [call |-> last.call, path |-> path, role |-> "shadow"]}

\* The description node at path got a rendering boundary from the last call
HasBoundary(path) ==
    /\ Truthy(NodeAt(Given, path).shadow)
    /\ Truthy(StateTagOf(NodeAt(Given, path)))
    /\ BoundaryFor(path) # {}

\* C12: for a node with a shadow mode and a "state" tag, every element built
\* for one of its declared children, of whatever element type, has the newly
\* attached rendering boundary as its parent.
C12_ChildrenInsideBoundary ==
    Compiled =>
        \A p \in Paths(Given) :
            HasBoundary(p) =>
                \A i \in 1..Len(NodeAt(Given, p).children) :
                    \A e \in BuiltFor(Append(p, i)) : nodes[e].parent \in BoundaryFor(p)

\* ------------------------------------------------------------------ C13
\* C13: when createFromStruct returns, the description object it was given is
\* as it was before the call, every children array in its declared order.
C13_DescriptionUnchanged ==
    Compiled => last.after = last.struct

Teardown == last'.op = "removeEventStore" \/ (last'.op = "removeElement" /\ last'.mode = 1)

\* C15: a teardown of an element leaves every ElementRefStore entry whose
\* value is another element as it was.
C15_TeardownSparesOthers ==
    [][Teardown =>
          \A k \in DOMAIN ElementRefStore :
              ElementRefStore[k] # last'.element
                 => /\ k \in DOMAIN ElementRefStore'
                    /\ ElementRefStore'[k] = ElementRefStore[k]]_vars

\* ------------------------------------------------------------------ C16
\* Element e with everything below it: its children and, when it hosts a
\* rendering boundary, the boundary and its content
RECURSIVE Subtree(_)
Subtree(e) ==
    {e} \cup UNION {Subtree(nodes[e].kids[i]) : i \in 1..Len(nodes[e].kids)}
        \cup (IF nodes[e].shadowRoot = Undefined THEN {} ELSE Subtree(nodes[e].shadowRoot))

\* The last operation was removeEventStore(E) or removeElement(K, 1) with E
\* stored under K, and it took E out of the tree
TornDown ==
    /\ last.op = "removeEventStore" \/ (last.op = "removeElement" /\ last.mode = 1)
    /\ last.element # Undefined
    /\ last.wasUnder # Undefined
    /\ nodes[last.element].parent = Undefined

\* C16: once a teardown has detached E, neither ElementRefStore nor
\* ActionRefStore holds an entry for E or for an element below E.
C16_NoEntryForTornDown ==
    TornDown =>
        \A e \in Subtree(last.element) :
            /\ e \notin DOMAIN ActionRefStore
            /\ \A k \in DOMAIN ElementRefStore : ElementRefStore[k] # e

\* ------------------------------------------------------------------ C17
\* The last operation was removeElement(K, 1), and K named an element that
\* carries the "state" tag K and hosts a rendering boundary
RemovedBoundaryHost ==
    /\ last.op = "removeElement"
    /\ last.mode = 1
    /\ last.element # Undefined
    /\ DatasetGet(nodes[last.element], "state") = last.key
    /\ nodes[last.element].shadowRoot # Undefined

\* C17: after removeElement(K, 1) on a node compiled with the tag K, a shadow
\* mode and an event, ActionRefStore holds no entry for the node or for its
\* rendering boundary, and no handler is attached to either.
C17_FullRemoveUndoesBoundaryEvent ==
    RemovedBoundaryHost =>
        \A e \in {last.element, nodes[last.element].shadowRoot} :
            /\ e \notin DOMAIN ActionRefStore
            /\ nodes[e].listeners = {}

====
